---- MODULE Spec2Model ----
(***************************************************************************)
(* Model of autopilot/codex-tuner/scripts/iterative-search.py: the         *)
(* iterative adaptive local search over weight profiles, its candidate     *)
(* generation, its selection engine and its session life cycle (snapshot,  *)
(* iterations, finalization, rollback).                                    *)
(*                                                                         *)
(* Numbers.  A float is an integer count of units; GRID units make one     *)
(* step of round(x, 6), so a normalized value is a multiple of GRID and    *)
(* a value read from a file may be any integer.  ONE is the float 1.0.     *)
(* The bounds table is the code's table on this coarse grid.  Step sizes   *)
(* and random factors are integers in hundredths.  -inf is NEG_INF, an     *)
(* integer below every finite metric value of the model.                   *)
(***************************************************************************)
EXTENDS Integers, Sequences, FiniteSets, TLC

\* ------------------------------------------------------------ bounds
\* a session draws at most MaxEvaluations results from the unconstrained oracle,
\* and runs at most MaxIterations iterations against a stub oracle
MaxEvaluations == 4
MaxIterations == 3

\* ------------------------------------------------------------ options
None == <<>>
Some(x) == <<x>>
IsSome(o) == o # <<>>
Val(o) == o[1]

\* ------------------------------------------------------- profile model
GRID == 100
ONE == 200

SCALE_KEYS == {"risk_weight_scale"}
DELTA_KEY == "min_fire_quality_delta"
PROFILE_KEYS == SCALE_KEYS \cup {DELTA_KEY}
\* json.dumps(..., sort_keys=True): the keys in sorted order
SORTED_KEYS == <<"min_fire_quality_delta", "risk_weight_scale">>

SCALE_BOUNDS == [k \in SCALE_KEYS |-> <<100, 300>>]
DELTA_BOUNDS == <<-100, 100>>

Max2(a, b) == IF a >= b THEN a ELSE b
Min2(a, b) == IF a <= b THEN a ELSE b

ClampNothing(value, lo, hi) == value

\* lines 91-92
clamp(value, lo, hi) == Max2(lo, Min2(hi, value))

\* round(x, 6): to the nearest multiple of GRID, a tie to the even multiple
Round6(x) ==
    LET q == x \div GRID
        r == x % GRID
    IN  IF 2 * r < GRID THEN q * GRID
        ELSE IF 2 * r > GRID THEN (q + 1) * GRID
        ELSE IF q % 2 = 0 THEN q * GRID ELSE (q + 1) * GRID

\* profile.get(key, default)
Get(profile, key, default) ==
    IF key \in DOMAIN profile THEN profile[key] ELSE default

KeyBounds(key) == IF key = DELTA_KEY THEN DELTA_BOUNDS ELSE SCALE_BOUNDS[key]
KeyDefault(key) == IF key = DELTA_KEY THEN 0 ELSE ONE

normalize_profile(profile) ==
    [key \in PROFILE_KEYS |->
        Round6(clamp(Get(profile, key, KeyDefault(key)),
                     KeyBounds(key)[1], KeyBounds(key)[2]))]

profile_signature(profile) ==
    LET normalized == normalize_profile(profile)
    IN  [i \in 1..Len(SORTED_KEYS) |-> normalized[SORTED_KEYS[i]]]

ProfileDeltaSwapped(newer, older) ==
    [key \in PROFILE_KEYS |-> Round6(older[key] - newer[key])]

profile_delta(newer, older) ==
    [key \in PROFILE_KEYS |-> Round6(newer[key] - older[key])]

\* ------------------------------------------------------------ metrics
\* -math.inf: below every finite objective and score of the model
NEG_INF == -1000

SELECTION_METRICS == {"objective", "score", "insane"}

metric_tuple(row, selection_metric) ==
    CASE selection_metric = "objective" ->
            <<row.objective_value, row.avg_score, row.max_score, row.avg_frames>>
      [] selection_metric = "score" ->
            <<row.avg_score, row.max_score, row.objective_value, row.avg_frames>>
      [] selection_metric = "insane" ->
            <<row.max_score, row.avg_score, row.objective_value, row.avg_frames>>

\* Python's > on two tuples of the same length: lexicographic
TupleGreater(a, b) ==
    \E i \in 1..Len(a) :
        /\ a[i] > b[i]
        /\ \A j \in 1..(i - 1) : a[j] = b[j]

WorseThan(left, right, selection_metric) ==
    TupleGreater(metric_tuple(right, selection_metric),
                 metric_tuple(left, selection_metric))

\* lines 136-139
better_than(left, right, selection_metric) ==
    TupleGreater(metric_tuple(left, selection_metric),
                 metric_tuple(right, selection_metric))

\* results.sort(key=metric_tuple, reverse=True): stable, descending.
\* InsertDesc puts row after every row whose key is >= its own.
InsertDesc(sorted, row, selection_metric) ==
    LET n == Cardinality({i \in 1..Len(sorted) :
                 ~ TupleGreater(metric_tuple(row, selection_metric),
                                metric_tuple(sorted[i], selection_metric))})
    IN  SubSeq(sorted, 1, n) \o <<row>> \o SubSeq(sorted, n + 1, Len(sorted))

RECURSIVE SortFrom(_, _, _)
SortFrom(sorted, rest, selection_metric) ==
    IF rest = <<>> THEN sorted
    ELSE SortFrom(InsertDesc(sorted, Head(rest), selection_metric),
                  Tail(rest), selection_metric)

SortAscending(rows, selection_metric) ==
    LET s == SortFrom(<<>>, rows, selection_metric)
    IN  [i \in 1..Len(s) |-> s[Len(s) + 1 - i]]

SortResults(rows, selection_metric) ==
    SortFrom(<<>>, rows, selection_metric)

\* ---------------------------------------------------------- generator
\* Draws of rng.uniform(a, b), in hundredths: the two ends and the middle
Uniform(a, b) == {a, (a + b) \div 2, b}

\* rng.randint(min_fields, max_fields) after the two clamps to len(SCALE_KEYS)
FieldCounts(min_fields, max_fields) ==
    LET n  == Cardinality(SCALE_KEYS)
        lo == Max2(1, Min2(min_fields, n))
        hi == Max2(lo, Min2(max_fields, n))
    IN  lo..hi

\* rng.sample(SCALE_KEYS, field_count)
Samples(counts) == {S \in SUBSET SCALE_KEYS : Cardinality(S) \in counts}

MutateScales(base, step, keys) ==
    {[k \in PROFILE_KEYS |->
        IF k \in keys
        THEN clamp((base[k] * (100 + u[k])) \div 100,
                   SCALE_BOUNDS[k][1], SCALE_BOUNDS[k][2])
        ELSE base[k]] : u \in [keys -> Uniform(0 - step, step)]}

\* rng.random() < 0.95 decides whether the delta field moves
MutateDelta(out, step, delta_scale) ==
    LET delta_step == Max2(1, (step * delta_scale) \div 100)
    IN  {out} \cup
        {[out EXCEPT ![DELTA_KEY] =
              clamp(@ + (ONE * d) \div 100, DELTA_BOUNDS[1], DELTA_BOUNDS[2])]
            : d \in Uniform(0 - delta_step, delta_step)}

mutate_profile(base, step, min_fields, max_fields, delta_scale) ==
    {normalize_profile(o2) :
        o2 \in UNION {MutateDelta(o1, step, delta_scale) :
            o1 \in UNION {MutateScales(base, step, S) :
                S \in Samples(FieldCounts(min_fields, max_fields))}}}

\* rng.random() < 0.45 decides the hard reset of one field
mutate_profile_aggressive(base, step) ==
    LET outs == mutate_profile(base, (step * 175) \div 100, 6,
                               Cardinality(SCALE_KEYS), 20)
        reset(out) ==
            UNION {{[out EXCEPT ![key] = Round6(v)] :
                       v \in Uniform(SCALE_BOUNDS[key][1], SCALE_BOUNDS[key][2])}
                   : key \in SCALE_KEYS}
    IN  {normalize_profile(o) : o \in outs \cup UNION {reset(out) : out \in outs}}

blend_profiles(a, b, alpha0) ==
    LET alpha == clamp(alpha0, 0, 100)
        out == [key \in PROFILE_KEYS |->
                  Round6(clamp((a[key] * alpha + b[key] * (100 - alpha)) \div 100,
                               KeyBounds(key)[1], KeyBounds(key)[2]))]
    IN  normalize_profile(out)

apply_momentum(base, mom, scale) ==
    LET out == [key \in PROFILE_KEYS |->
                  clamp(base[key] + (Get(mom, key, 0) * scale) \div 100,
                        KeyBounds(key)[1], KeyBounds(key)[2])]
    IN  normalize_profile(out)

\* lines 534-541: chaos = aggressive mutation, then forced uniform resets
ChaosProfiles(base, step) ==
    LET outs == mutate_profile_aggressive(base, (step * 145) \div 100)
        counts == 1..Min2(3, Cardinality(SCALE_KEYS))
        resets(out) ==
            UNION {{[k \in PROFILE_KEYS |->
                        IF k \in S THEN Round6(v[k]) ELSE out[k]] :
                      v \in [S -> UNION {Uniform(SCALE_BOUNDS[x][1], SCALE_BOUNDS[x][2])
                                           : x \in S}]}
                   : S \in Samples(counts)}
        delta(out) ==
            {out} \cup {[out EXCEPT ![DELTA_KEY] = Round6(d)] :
                          d \in Uniform(DELTA_BOUNDS[1], DELTA_BOUNDS[2])}
        forced == UNION {UNION {delta(o2) : o2 \in resets(o1)} : o1 \in outs}
    IN  {normalize_profile(c) : c \in outs \cup forced}

\* lines 467-468, in hundredths
BaseStep(a, it) ==
    LET RECURSIVE decayed(_, _)
        decayed(s, n) == IF n = 0 THEN s ELSE decayed((s * a.decay) \div 100, n - 1)
    IN  Max2(a.min_step, decayed(a.initial_step, it - 1))

SearchStep(a, it, stagnation) ==
    LET base_step == BaseStep(a, it)
    IN  Min2((base_step * (100 + 30 * stagnation)) \div 100, (base_step * 240) \div 100)

\* -------------------------------------------------------------- state
VARIABLES
    args,               \* parse_args(): the configuration of the run
    env,                \* files and tools the run only reads; ghost: active_before
    active_file,        \* adaptive-profile.json: the shared active profile
    champion_file,      \* profiles/champion.json: the champion reference
    written,            \* session artifacts written so far: <<name, iteration, candidate>>
    pc,                 \* position in main()
    old_profile,        \* the pre-session snapshot (None before line 406)
    incumbent_profile,
    global_best_profile,
    global_best_result,
    anchor_profiles,
    momentum,
    last_gain_anchor,
    stagnation_count,
    history,
    iteration,
    candidate_specs,
    seen,
    attempts,
    results,
    success,
    exc,                \* the exception propagating out of main(), "" if none
    exit_code,          \* -1 while the process runs
    oracle_exits,       \* ghost: this iteration's oracle exits, by candidate index
    oracle_calls,       \* ghost: oracle invocations of the session
    oracle_ever_ok,     \* ghost: some oracle invocation exited zero
    evaluated           \* ghost: the metric values of every result of the session

vars == <<args, env, active_file, champion_file, written, pc, old_profile,
          incumbent_profile, global_best_profile, global_best_result,
          anchor_profiles, momentum, last_gain_anchor, stagnation_count,
          history, iteration, candidate_specs, seen, attempts, results,
          success, exc, exit_code, oracle_exits, oracle_calls, oracle_ever_ok,
          evaluated>>

\* what main() has in hand: everything but the files, pc and the ghosts
locals == <<old_profile, incumbent_profile, global_best_profile,
            global_best_result, anchor_profiles, momentum, last_gain_anchor,
            stagnation_count, history, iteration, candidate_specs, seen,
            attempts, results, success>>
search == <<incumbent_profile, global_best_profile, global_best_result,
            momentum, last_gain_anchor, stagnation_count, history>>
ghosts == <<oracle_exits, oracle_calls, oracle_ever_ok, evaluated>>

NoProfile == [key \in PROFILE_KEYS |-> 0]

\* ------------------------------------------------------------- inputs
Raw(scale, delta) == [risk_weight_scale |-> scale, min_fire_quality_delta |-> delta]

\* base.json; a champion.json; a start profile with a tie and a missing key;
\* an active profile out of bounds and off the grid; an archived champion
BaseProfile == Raw(200, 0)
ChampionProfile == Raw(300, 0)
StartProfile == [risk_weight_scale |-> 150]
ActiveProfile == Raw(260, -130)
ArchiveProfile == Raw(100, 100)

DefaultArgs ==
    [iterations |-> 2, candidates |-> 2, max_frames |-> 1,
     selection_metric |-> "score", install_mode |-> "champion",
     start_profile |-> "", anchor_mode |-> "core",
     initial_step |-> 60, decay |-> 100, min_step |-> 4]

DefaultEnv ==
    [seeds_exists |-> TRUE, base |-> Some(BaseProfile), start |-> None,
     archives |-> <<>>, binary_ok |-> TRUE, session_dir_free |-> TRUE,
     oracle |-> "any", active_before |-> None]

\* <<iterations, candidates>> of the runs against the unconstrained oracle:
\* iterations * candidates results at most.  The generator of the "insane"
\* metric branches far more, and its runs are two results shorter.
Budget(m) == IF m = "insane" THEN MaxEvaluations - 2 ELSE MaxEvaluations

Shapes(m) ==
    {sh \in (1..MaxEvaluations) \X (2..MaxEvaluations) : sh[1] * sh[2] <= Budget(m)}

\* env.active_before keeps the active profile file as the run found it
Run(a, e, active, champion) ==
    <<a, [e EXCEPT !.active_before = active], active, champion>>

ConfigRuns ==
    UNION {{Run([DefaultArgs EXCEPT !.iterations = sh[1], !.candidates = sh[2],
                                    !.selection_metric = m],
                DefaultEnv, Some(ActiveProfile), None) : sh \in Shapes(m)}
           : m \in SELECTION_METRICS}

RestoreRuns ==
    {Run([DefaultArgs EXCEPT !.iterations = 1, !.selection_metric = m,
                             !.install_mode = "restore"],
         DefaultEnv, Some(ActiveProfile), ch) :
        m \in SELECTION_METRICS, ch \in {None, Some(ChampionProfile)}}

\* Scenario B, and an oracle that never tells two candidates apart
StubRuns ==
    {Run([DefaultArgs EXCEPT !.iterations = it, !.selection_metric = m],
         [DefaultEnv EXCEPT !.oracle = o], Some(ActiveProfile),
         Some(ChampionProfile)) :
        it \in 1..MaxIterations, m \in SELECTION_METRICS,
        o \in {"failing", "constant"}}

InvalidRuns ==
    {Run(a, DefaultEnv, Some(ActiveProfile), None) :
        a \in {[DefaultArgs EXCEPT !.iterations = 0],
               [DefaultArgs EXCEPT !.candidates = 1],
               [DefaultArgs EXCEPT !.max_frames = 0]}}

\* runs that end before the first iteration
BrokenRuns ==
    {Run([DefaultArgs EXCEPT !.start_profile = sp], e, act, None) :
        sp \in {"", "start.json"},
        e \in {[DefaultEnv EXCEPT !.seeds_exists = FALSE],
               [DefaultEnv EXCEPT !.base = None],
               [DefaultEnv EXCEPT !.session_dir_free = FALSE],
               [DefaultEnv EXCEPT !.binary_ok = FALSE]},
        act \in {None, Some(ActiveProfile)}}
    \cup {Run([DefaultArgs EXCEPT !.start_profile = "start.json"], DefaultEnv,
              Some(ActiveProfile), None)}

\* runs over other files: no active profile yet, a champion reference, an
\* explicit start profile, archived champions as anchors
FileRuns ==
    {Run(DefaultArgs, DefaultEnv, act, ch) :
        act \in {None, Some(ActiveProfile)}, ch \in {None, Some(ChampionProfile)}}
    \cup {Run([DefaultArgs EXCEPT !.start_profile = "start.json", !.anchor_mode = am],
              [DefaultEnv EXCEPT !.start = Some(StartProfile),
                                 !.archives = <<ArchiveProfile>>],
              Some(ActiveProfile), Some(ChampionProfile)) : am \in {"core", "all"}}

Runs ==
    ConfigRuns \cup RestoreRuns \cup StubRuns \cup InvalidRuns \cup BrokenRuns
    \cup FileRuns

Init ==
    /\ \E run \in Runs :
        /\ args = run[1]
        /\ env = run[2]
        /\ active_file = run[3]
        /\ champion_file = run[4]
    /\ written = {}
    /\ pc = "start"
    /\ old_profile = None
    /\ incumbent_profile = NoProfile
    /\ global_best_profile = NoProfile
    /\ global_best_result = None
    /\ anchor_profiles = <<>>
    /\ momentum = None
    /\ last_gain_anchor = None
    /\ stagnation_count = 0
    /\ history = <<>>
    /\ iteration = 0
    /\ candidate_specs = <<>>
    /\ seen = {}
    /\ attempts = 0
    /\ results = <<>>
    /\ success = FALSE
    /\ exc = ""
    /\ exit_code = -1
    /\ oracle_exits = <<>>
    /\ oracle_calls = 0
    /\ oracle_ever_ok = FALSE
    /\ evaluated = {}

\* An exception raised before the try block (lines 373-459): no finally runs,
\* the interpreter prints the error and exits non-zero (lines 721-726)
Die(e) ==
    /\ exc' = e
    /\ exit_code' = 1
    /\ pc' = "exited"

\* An exception raised inside the try block: control goes to the finally clause
Raise(e) ==
    /\ exc' = e
    /\ pc' = "finally"

\* lines 375-380
ValidateArgs ==
    /\ pc = "start"
    /\ IF args.iterations < 1 \/ args.candidates < 2 \/ args.max_frames < 1
       THEN Die("ValueError")
       ELSE pc' = "check_inputs" /\ UNCHANGED <<exc, exit_code>>
    /\ UNCHANGED <<args, env, active_file, champion_file, written, locals, ghosts>>

\* lines 382-400
CheckInputs ==
    /\ pc = "check_inputs"
    /\ IF ~ env.seeds_exists \/ ~ IsSome(env.base)
       THEN Die("FileNotFoundError") /\ UNCHANGED active_file
       ELSE /\ pc' = "create_session"
            /\ active_file' =
                 IF IsSome(active_file) THEN active_file
                 ELSE Some(normalize_profile(
                        IF IsSome(champion_file) THEN Val(champion_file)
                        ELSE Val(env.base)))
            /\ UNCHANGED <<exc, exit_code>>
    /\ UNCHANGED <<args, env, champion_file, written, locals, ghosts>>

\* lines 402-407
CreateSession ==
    /\ pc = "create_session"
    /\ IF ~ env.session_dir_free
       THEN Die("FileExistsError") /\ UNCHANGED <<old_profile, written>>
       ELSE /\ old_profile' = Some(normalize_profile(Val(active_file)))
            /\ written' = written \cup {<<"backup-active-profile", 0, 0>>}
            /\ pc' = "resolve_start"
            /\ UNCHANGED <<exc, exit_code>>
    /\ UNCHANGED <<args, env, active_file, champion_file, incumbent_profile,
                   global_best_profile, global_best_result, anchor_profiles,
                   momentum, last_gain_anchor, stagnation_count, history,
                   iteration, candidate_specs, seen, attempts, results, success,
                   ghosts>>

\* lines 426-442: the anchor sources, in order, those that exist
AnchorSources ==
    <<<<"base", env.base>>, <<"champion", champion_file>>>>
    \o (IF args.anchor_mode = "all"
        THEN [i \in 1..Len(env.archives) |-> <<"auto_champion", Some(env.archives[i])>>]
        ELSE <<>>)

\* lines 443-449: drop a missing source and one whose signature is the incumbent's
RECURSIVE BuildAnchors(_, _)
BuildAnchors(sources, incumbent_sig) ==
    IF sources = <<>> THEN <<>>
    ELSE LET label == Head(sources)[1]
             file == Head(sources)[2]
             rest == BuildAnchors(Tail(sources), incumbent_sig)
         IN  IF ~ IsSome(file) THEN rest
             ELSE IF profile_signature(normalize_profile(Val(file))) = incumbent_sig
                  THEN rest
                  ELSE <<<<label, normalize_profile(Val(file))>>>> \o rest

\* lines 409-453
ResolveStart ==
    /\ pc = "resolve_start"
    /\ IF args.start_profile # "" /\ ~ IsSome(env.start)
       THEN /\ Die("FileNotFoundError")
            /\ UNCHANGED <<incumbent_profile, global_best_profile, anchor_profiles>>
       ELSE LET start == IF args.start_profile # "" THEN Val(env.start)
                         ELSE IF IsSome(champion_file) THEN Val(champion_file)
                         ELSE Val(env.base)
                inc == normalize_profile(start)
            IN  /\ incumbent_profile' = inc
                /\ global_best_profile' = inc
                /\ anchor_profiles' = BuildAnchors(AnchorSources, profile_signature(inc))
                /\ pc' = "ensure_binary"
                /\ UNCHANGED <<exc, exit_code>>
    /\ UNCHANGED <<args, env, active_file, champion_file, written, old_profile,
                   global_best_result, momentum, last_gain_anchor,
                   stagnation_count, history, iteration, candidate_specs, seen,
                   attempts, results, success, ghosts>>

\* lines 229-247, 456
EnsureBinary ==
    /\ pc = "ensure_binary"
    /\ IF env.binary_ok
       THEN pc' = "loop" /\ UNCHANGED <<exc, exit_code>>
       ELSE Die("BuildError")
    /\ UNCHANGED <<args, env, active_file, champion_file, written, locals, ghosts>>

\* ------------------------------------------------- candidate generation
MAX_ATTEMPTS == 320

PushUnchecked(specs, sigs, profile, strategy) ==
    <<Append(specs, [profile |-> normalize_profile(profile), strategy |-> strategy]),
      sigs \cup {profile_signature(profile)}>>

\* lines 473-480: <<candidate_specs, seen>> after push_candidate(profile, strategy)
push_candidate(specs, sigs, profile, strategy) ==
    LET normalized == normalize_profile(profile)
        sig == profile_signature(normalized)
    IN  IF sig \in sigs THEN <<specs, sigs>>
        ELSE <<Append(specs, [profile |-> normalized, strategy |-> strategy]),
               sigs \cup {sig}>>

Push(profile, strategy) ==
    LET pushed == push_candidate(candidate_specs, seen, profile, strategy)
    IN  /\ candidate_specs' = pushed[1]
        /\ seen' = pushed[2]

AlwaysRoom == TRUE

\* `len(candidate_specs) < args.candidates` at lines 484-533
HasRoom == Len(candidate_specs) < args.candidates

search_step == SearchStep(args, iteration, stagnation_count)

GenFrame ==
    UNCHANGED <<args, env, active_file, champion_file, written, old_profile,
                search, anchor_profiles, iteration, attempts, results, success,
                exc, exit_code, ghosts>>

\* lines 463-482: the loop head, the iteration directory, the incumbent
\* carry-over.  results and attempts are dead once the iteration's history entry
\* is written; the model drops them here and not at lines 543 and 573.
BeginIteration ==
    /\ pc = "loop"
    /\ \/ /\ iteration < args.iterations
          /\ iteration' = iteration + 1
          /\ \/ /\ candidate_specs' =
                     push_candidate(<<>>, {}, incumbent_profile, "incumbent")[1]
                /\ seen' = push_candidate(<<>>, {}, incumbent_profile, "incumbent")[2]
                /\ pc' = "gen_momentum"
                /\ UNCHANGED exc
             \/ /\ Raise("OSError")
                /\ UNCHANGED <<candidate_specs, seen>>
       \/ /\ iteration >= args.iterations
          /\ pc' = "finalize"
          /\ UNCHANGED <<iteration, candidate_specs, seen, exc>>
    /\ results' = <<>>
    /\ oracle_exits' = <<>>
    /\ attempts' = 0
    /\ UNCHANGED <<args, env, active_file, champion_file, written, old_profile,
                   search, anchor_profiles, success, exit_code, oracle_calls,
                   oracle_ever_ok, evaluated>>

\* lines 484-489
GenMomentum ==
    /\ pc = "gen_momentum"
    /\ \/ /\ IsSome(momentum) /\ HasRoom
          /\ \E u \in Uniform(-25, 45) :
                Push(apply_momentum(incumbent_profile, Val(momentum), 100 + u),
                     "momentum")
       \/ /\ ~ (IsSome(momentum) /\ HasRoom)
          /\ UNCHANGED <<candidate_specs, seen>>
    /\ pc' = "gen_blend_last_gain"
    /\ GenFrame

\* lines 491-496
GenBlendLastGain ==
    /\ pc = "gen_blend_last_gain"
    /\ \/ /\ IsSome(last_gain_anchor) /\ HasRoom
          /\ \E u \in Uniform(-18, 18) :
                Push(blend_profiles(incumbent_profile, Val(last_gain_anchor), 50 + u),
                     "blend_last_gain")
       \/ /\ ~ (IsSome(last_gain_anchor) /\ HasRoom)
          /\ UNCHANGED <<candidate_specs, seen>>
    /\ pc' = "gen_blend_anchor"
    /\ GenFrame

\* lines 498-504
GenBlendAnchor ==
    /\ pc = "gen_blend_anchor"
    /\ \/ /\ anchor_profiles # <<>> /\ HasRoom
          /\ \E c \in 1..Len(anchor_profiles), u \in Uniform(-32, 20) :
                Push(blend_profiles(incumbent_profile, anchor_profiles[c][2], 58 + u),
                     "blend_" \o anchor_profiles[c][1])
       \/ /\ ~ (anchor_profiles # <<>> /\ HasRoom)
          /\ UNCHANGED <<candidate_specs, seen>>
    /\ pc' = "gen_anchor_mutate"
    /\ GenFrame

AnchorMutateUngated == anchor_profiles # <<>> /\ HasRoom

\* lines 506-510
AnchorMutateGate ==
    /\ anchor_profiles # <<>>
    /\ HasRoom
    /\ (stagnation_count >= 1 \/ args.selection_metric = "insane")

\* lines 506-525
GenAnchorMutate ==
    /\ pc = "gen_anchor_mutate"
    /\ \/ /\ AnchorMutateGate
          /\ \E c \in 1..Len(anchor_profiles), u \in Uniform(-10, 50),
                w \in Uniform(-12, 16) :
                \E anchor_seed \in mutate_profile(anchor_profiles[c][2],
                                     (search_step * (135 + u)) \div 100, 5,
                                     Cardinality(SCALE_KEYS), 24) :
                    Push(blend_profiles(anchor_seed, incumbent_profile, 35 + w),
                         "anchor_mutate_" \o anchor_profiles[c][1])
       \/ /\ ~ AnchorMutateGate
          /\ UNCHANGED <<candidate_specs, seen>>
    /\ pc' = "gen_escape"
    /\ GenFrame

\* lines 527-531
GenEscape ==
    /\ pc = "gen_escape"
    /\ \/ /\ stagnation_count >= 2 /\ HasRoom
          /\ \E profile \in mutate_profile_aggressive(incumbent_profile, search_step) :
                Push(profile, "escape")
       \/ /\ ~ (stagnation_count >= 2 /\ HasRoom)
          /\ UNCHANGED <<candidate_specs, seen>>
    /\ pc' = "gen_chaos"
    /\ GenFrame

\* lines 533-541
GenChaos ==
    /\ pc = "gen_chaos"
    /\ \/ /\ args.selection_metric = "insane" /\ HasRoom
          /\ \E chaos \in ChaosProfiles(incumbent_profile, search_step) :
                Push(chaos, "chaos")
       \/ /\ ~ (args.selection_metric = "insane" /\ HasRoom)
          /\ UNCHANGED <<candidate_specs, seen>>
    /\ pc' = "gen_fill"
    /\ GenFrame

\* lines 545-566: what one attempt of the fill loop may push, <<profile, strategy>>
FillDraws ==
    LET steps0 == {(search_step * (100 + u)) \div 100 : u \in Uniform(-15, 35)}
        steps1 == IF stagnation_count >= 2
                  THEN {(s * 120) \div 100 : s \in steps0} ELSE steps0
    IN  IF args.selection_metric = "insane"
        THEN LET steps2 == {(s * (120 + w)) \div 100 : s \in steps1, w \in Uniform(-8, 32)}
             IN  UNION {{<<p, "mutate_aggressive">> :
                           p \in mutate_profile_aggressive(incumbent_profile, s)}
                        \cup {<<p, "mutate">> :
                           p \in mutate_profile(incumbent_profile, s, 4,
                                                Cardinality(SCALE_KEYS), 18)}
                        : s \in steps2}
        ELSE UNION {{<<p, "mutate">> :
                       p \in mutate_profile(incumbent_profile, s, 3, 7, 10)}
                    : s \in steps1}

\* <<candidate_specs, seen>> after k more attempts that each pushed a new candidate
RECURSIVE FillExtensions(_, _, _, _)
FillExtensions(specs, sigs, draws, k) ==
    IF k = 0 THEN {<<specs, sigs>>}
    ELSE UNION {FillExtensions(push_candidate(specs, sigs, d[1], d[2])[1],
                               push_candidate(specs, sigs, d[1], d[2])[2],
                               draws, k - 1)
                : d \in {x \in draws : profile_signature(x[1]) \notin sigs}}

\* An attempt is wasted when its draw repeats a signature already seen
CanRepeat(sigs, draws) == \E d \in draws : profile_signature(d[1]) \in sigs

\* lines 543-566: the outcomes <<candidate_specs, seen, attempts>> of the whole
\* loop `while len(candidate_specs) < candidates and attempts < 320`: either
\* every attempt pushed a new candidate until the count was reached, or the
\* attempts ran out on repeated signatures after j new candidates
FillOutcomes(specs, sigs, draws, wanted, limit) ==
    LET needed == wanted - Len(specs)
    IN  IF needed <= 0 THEN {<<specs, sigs, 0>>}
        ELSE UNION {UNION {
               {<<e[1], e[2], a>> :
                   a \in IF j = needed THEN {j}
                         ELSE IF CanRepeat(e[2], draws) THEN {limit} ELSE {}}
               : e \in FillExtensions(specs, sigs, draws, j)}
               : j \in 0..Min2(needed, limit)}

NeverTooFew(specs, wanted) == FALSE

\* line 568
TooFew(specs, wanted) == Len(specs) < wanted

\* lines 543-573: the fill loop, the count check, results = []
FillLoop ==
    /\ pc = "gen_fill"
    /\ \E o \in FillOutcomes(candidate_specs, seen, FillDraws, args.candidates,
                             MAX_ATTEMPTS) :
        /\ candidate_specs' = o[1]
        /\ seen' = o[2]
        /\ attempts' = o[3]
        /\ IF TooFew(o[1], args.candidates)
           THEN Raise("RuntimeError")
           ELSE pc' = "evaluate" /\ UNCHANGED exc
    /\ UNCHANGED <<args, env, active_file, champion_file, written, old_profile,
                   search, anchor_profiles, iteration, results, success,
                   exit_code, ghosts>>

\* ------------------------------------------------------------- oracle
Ranking(objective, avg, max, frames) ==
    [objective_value |-> objective, avg_score |-> avg, max_score |-> max,
     avg_frames |-> frames]

\* What a run of the benchmark binary that exits zero may report for the bot.
\* Scores are counts and an average does not exceed its maximum; the four
\* rankings are ordered differently by each of the three selection metrics.
Rankings ==
    {Ranking(1, 0, 0, 1), Ranking(1, 1, 1, 1), Ranking(-1, 1, 1, 1),
     Ranking(-1, 0, 2, 1)}

SentinelZeroObjective ==
    [objective_value |-> 0, avg_score |-> 0, max_score |-> 0, avg_frames |-> 0]

\* lines 592-597
FAILURE_SENTINEL ==
    [objective_value |-> NEG_INF, avg_score |-> NEG_INF, max_score |-> 0,
     avg_frames |-> 0]

\* One run of the external process: its exit status, and whether summary.json
\* lists the bot.  env.oracle names the oracle of the run: "any" is unconstrained,
\* "failing" always exits non-zero, "constant" always reports the same ranking.
OracleRuns ==
    CASE env.oracle = "failing" ->
            {[exit |-> 1, has_bot |-> FALSE, ranking |-> FAILURE_SENTINEL]}
      [] env.oracle = "constant" ->
            {[exit |-> 0, has_bot |-> TRUE, ranking |-> Ranking(1, 1, 1, 1)]}
      [] env.oracle = "any" ->
            {[exit |-> 1, has_bot |-> FALSE, ranking |-> FAILURE_SENTINEL],
             [exit |-> 0, has_bot |-> FALSE, ranking |-> FAILURE_SENTINEL]}
            \cup {[exit |-> 0, has_bot |-> TRUE, ranking |-> r] : r \in Rankings}

\* lines 250-296: what benchmark_profile raises ("" if nothing) and returns
benchmark_profile(run) ==
    IF run.exit # 0 THEN [raised |-> "CalledProcessError", metrics |-> run.ranking]
    ELSE IF ~ run.has_bot THEN [raised |-> "RuntimeError", metrics |-> run.ranking]
    ELSE [raised |-> "", metrics |-> run.ranking]

CaughtEverything(e) == TRUE

CaughtNothing(e) == FALSE

\* line 591: except subprocess.CalledProcessError
Caught(e) == e = "CalledProcessError"

InvocationsWithRetry(run) == IF run.exit # 0 THEN 2 ELSE 1

\* lines 255-279: benchmark_profile runs the benchmark binary once (check=True)
Invocations(run) == 1

ActiveLeftAlone(spec, current) == current

\* line 579: the active profile when benchmark_profile is called
ActiveForEvaluation(spec, current) == Some(spec.profile)

\* lines 574-617: one pass of the evaluation loop
EvaluateCandidate ==
    /\ pc = "evaluate"
    /\ LET idx == Len(results)
           spec == candidate_specs[idx + 1]
       IN  \/ /\ Raise("OSError")
              /\ UNCHANGED <<written, active_file, results, ghosts>>
           \/ /\ written' = written \cup {<<"profile", iteration, idx>>}
              /\ active_file' = ActiveForEvaluation(spec, active_file)
              /\ \E run \in OracleRuns :
                    LET out == benchmark_profile(run)
                        m == IF out.raised = "" THEN out.metrics ELSE FAILURE_SENTINEL
                        result == [iteration |-> iteration, candidate |-> idx,
                                   strategy |-> spec.strategy,
                                   objective_value |-> m.objective_value,
                                   avg_score |-> m.avg_score,
                                   max_score |-> m.max_score,
                                   avg_frames |-> m.avg_frames,
                                   profile |-> spec.profile]
                    IN  /\ oracle_calls' = oracle_calls + Invocations(run)
                        /\ oracle_ever_ok' = (oracle_ever_ok \/ run.exit = 0)
                        /\ IF out.raised = "" \/ Caught(out.raised)
                           THEN /\ results' = Append(results, result)
                                /\ oracle_exits' = Append(oracle_exits, run.exit)
                                /\ evaluated' = evaluated \cup {m}
                                /\ pc' = IF idx + 1 = Len(candidate_specs)
                                         THEN "select" ELSE "evaluate"
                                /\ UNCHANGED exc
                           ELSE /\ Raise(out.raised)
                                /\ UNCHANGED <<results, oracle_exits, evaluated>>
    /\ UNCHANGED <<args, env, champion_file, old_profile, search, anchor_profiles,
                   iteration, candidate_specs, seen, attempts, success, exit_code>>

\* ---------------------------------------------------------- selection
\* line 625: next(r for r in results if r.strategy == "incumbent")
IncumbentResult(rows) ==
    rows[CHOOSE i \in 1..Len(rows) :
            /\ rows[i].strategy = "incumbent"
            /\ \A j \in 1..(i - 1) : rows[j].strategy # "incumbent"]

StagnationDoubled(improved, count) == IF improved THEN 0 ELSE count + 2

StagnationKept(improved, count) == IF improved THEN 0 ELSE count

\* lines 633, 635
NextStagnation(improved, count) == IF improved THEN 0 ELSE count + 1

ReplacesWhenNotWorse(winner, best, selection_metric) ==
    best = None \/ ~ better_than(Val(best), winner, selection_metric)

ReplacesAlways(winner, best, selection_metric) == TRUE

\* lines 637-639
ReplacesGlobalBest(winner, best, selection_metric) ==
    best = None \/ better_than(winner, Val(best), selection_metric)

HistoryEntry(winner, improved, stagnation) ==
    [iteration |-> iteration, search_step |-> search_step, improved |-> improved,
     stagnation_count |-> stagnation,
     winner |-> [candidate |-> winner.candidate, strategy |-> winner.strategy,
                 objective_value |-> winner.objective_value,
                 avg_score |-> winner.avg_score, max_score |-> winner.max_score,
                 avg_frames |-> winner.avg_frames]]

LeaderboardMisfiled(it) == <<"leaderboard", 0, 0>>

\* lines 299-326, 622: leaderboard.csv of the iteration
LeaderboardRecord(it) == <<"leaderboard", it, 0>>

MomentumAlways(improved, winner_profile, previous, current) ==
    Some(profile_delta(winner_profile, previous))

\* lines 628-631: the momentum after the iteration
NextMomentum(improved, winner_profile, previous, current) ==
    IF improved THEN Some(profile_delta(winner_profile, previous)) ELSE current

\* lines 619-668: rank, leaderboard, adapt, global best, winner profile, history
Select ==
    /\ pc = "select"
    /\ LET sorted == SortResults(results, args.selection_metric)
           winner == sorted[1]
           improved == better_than(winner, IncumbentResult(sorted),
                                   args.selection_metric)
           stagnation == NextStagnation(improved, stagnation_count)
           leaderboard == LeaderboardRecord(iteration)
       IN  /\ results' = sorted
           /\ \/ /\ Raise("OSError")
                 /\ UNCHANGED <<written, search>>
              \/ /\ incumbent_profile' =
                      IF improved THEN winner.profile ELSE incumbent_profile
                 /\ momentum' = NextMomentum(improved, winner.profile,
                                              incumbent_profile, momentum)
                 /\ last_gain_anchor' =
                      IF improved THEN Some(incumbent_profile) ELSE last_gain_anchor
                 /\ stagnation_count' = stagnation
                 /\ IF ReplacesGlobalBest(winner, global_best_result,
                                          args.selection_metric)
                    THEN /\ global_best_result' = Some(winner)
                         /\ global_best_profile' = winner.profile
                    ELSE UNCHANGED <<global_best_result, global_best_profile>>
                 /\ \/ /\ Raise("OSError")
                       /\ written' = written \cup {leaderboard}
                       /\ UNCHANGED history
                    \/ /\ written' = written \cup
                                       {leaderboard, <<"winner-profile", iteration, 0>>}
                       /\ history' = Append(history,
                                            HistoryEntry(winner, improved, stagnation))
                       /\ pc' = "loop"
                       /\ UNCHANGED exc
    /\ UNCHANGED <<args, env, active_file, champion_file, old_profile,
                   anchor_profiles, iteration, candidate_specs, seen, attempts,
                   success, exit_code, ghosts>>

\* ------------------------------------------------------- finalization
FinalFrame ==
    UNCHANGED <<args, env, old_profile, search, anchor_profiles, iteration,
                candidate_specs, seen, attempts, results, exit_code, ghosts>>

\* lines 670-674: champion.json of the session, then the champion reference
CommitChampion ==
    /\ pc = "finalize"
    /\ IF global_best_result = None
       THEN Raise("RuntimeError") /\ UNCHANGED <<written, champion_file>>
       ELSE \/ /\ Raise("OSError")
               /\ UNCHANGED <<written, champion_file>>
            \/ /\ \/ /\ Raise("OSError")
                     /\ UNCHANGED champion_file
                     /\ written' = written \cup {<<"champion", 0, 0>>}
                  \/ /\ champion_file' = Some(global_best_profile)
                     /\ written' = written \cup {<<"champion", 0, 0>>,
                                                 <<"champion-reference", 0, 0>>}
                     /\ pc' = "summary"
                     /\ UNCHANGED exc
    /\ UNCHANGED <<active_file, success>>
    /\ FinalFrame

\* lines 676-701
WriteSummary ==
    /\ pc = "summary"
    /\ \/ /\ Raise("OSError")
          /\ UNCHANGED written
       \/ /\ written' = written \cup {<<"summary", 0, 0>>}
          /\ pc' = "install"
          /\ UNCHANGED exc
    /\ UNCHANGED <<active_file, champion_file, success>>
    /\ FinalFrame

InstalledChampionAlways(mode, champion, previous) == champion

\* lines 703-706: what the install policy writes to the active profile
InstalledProfile(mode, champion, previous) ==
    IF mode = "champion" THEN champion ELSE previous

Install ==
    /\ pc = "install"
    /\ \/ /\ Raise("OSError")
          /\ UNCHANGED active_file
       \/ /\ active_file' = Some(InstalledProfile(args.install_mode,
                                     global_best_profile, Val(old_profile)))
          /\ pc' = "latest"
          /\ UNCHANGED exc
    /\ UNCHANGED <<written, champion_file, success>>
    /\ FinalFrame

\* lines 708-715: latest-session.txt, success = True, return 0
WriteLatest ==
    /\ pc = "latest"
    /\ \/ /\ Raise("OSError")
          /\ UNCHANGED <<written, success>>
       \/ /\ written' = written \cup {<<"latest-session", 0, 0>>}
          /\ success' = TRUE
          /\ pc' = "finally"
          /\ UNCHANGED exc
    /\ UNCHANGED <<active_file, champion_file>>
    /\ FinalFrame

RestoreNever(ok, active, previous) == active

\* lines 716-718: the active profile after the finally clause
RestoreOnFailure(ok, active, previous) ==
    IF ~ ok THEN Some(previous) ELSE active

ExitZero(e) == 0

\* lines 721-726: the process exit status
ExitStatus(e) == IF e = "" THEN 0 ELSE 1

\* lines 716-726: the finally clause, then the process exits
Finally ==
    /\ pc = "finally"
    /\ active_file' = RestoreOnFailure(success, active_file, Val(old_profile))
    /\ exit_code' = ExitStatus(exc)
    /\ pc' = "exited"
    /\ UNCHANGED <<args, env, champion_file, written, locals, exc, ghosts>>

Next ==
    \/ ValidateArgs
    \/ CheckInputs
    \/ CreateSession
    \/ ResolveStart
    \/ EnsureBinary
    \/ BeginIteration
    \/ GenMomentum
    \/ GenBlendLastGain
    \/ GenBlendAnchor
    \/ GenAnchorMutate
    \/ GenEscape
    \/ GenChaos
    \/ FillLoop
    \/ EvaluateCandidate
    \/ Select
    \/ CommitChampion
    \/ WriteSummary
    \/ Install
    \/ WriteLatest
    \/ Finally

Spec == Init /\ [][Next]_vars

\* main() is one thread and blocks only in the oracle call: as long as every
\* call returns, a step that can be taken is taken
LiveSpec == Init /\ [][Next]_vars /\ WF_vars(Next)

\* ------------------------------------------------------------ claims
\* The selection metrics as section 4.4 of the specification states them, and
\* "strictly greater" on their 4-tuples, written out
StatedTuple(m, r) ==
    IF m = "objective" THEN <<r.objective_value, r.avg_score, r.max_score, r.avg_frames>>
    ELSE IF m = "score" THEN <<r.avg_score, r.max_score, r.objective_value, r.avg_frames>>
    ELSE <<r.max_score, r.avg_score, r.objective_value, r.avg_frames>>

StrictlyGreater(a, b) ==
    \/ a[1] > b[1]
    \/ a[1] = b[1] /\ a[2] > b[2]
    \/ a[1] = b[1] /\ a[2] = b[2] /\ a[3] > b[3]
    \/ a[1] = b[1] /\ a[2] = b[2] /\ a[3] = b[3] /\ a[4] > b[4]

Beats(r, q) ==
    StrictlyGreater(StatedTuple(args.selection_metric, r),
                    StatedTuple(args.selection_metric, q))

\* the result of the incumbent carry-over, the candidate of index 0
CarryOver(rows) == rows[CHOOSE i \in 1..Len(rows) : rows[i].candidate = 0]

Exited == pc = "exited"
Failed == pc = "exited" /\ exit_code # 0
Succeeded == pc = "exited" /\ exit_code = 0
TryEntered == iteration >= 1
SessionCreated == IsSome(old_profile)
\* The active profile is at its pre-session value: the snapshot once the try
\* block was entered, the untouched file before
PreSessionHeld ==
    IF TryEntered THEN active_file = old_profile
    ELSE IsSome(env.active_before) => active_file = env.active_before
ChampionCommitted == <<"champion-reference", 0, 0>> \in written
SummaryWritten == <<"summary", 0, 0>> \in written

\* C1: a run that fails after the snapshot was taken and the iteration loop has
\* started exits with the active profile equal to the pre-session snapshot
C1_FailureRestoresSnapshot ==
    (Failed /\ TryEntered) => active_file = old_profile

\* a run that failed after its summary was written (at the install or at the
\* latest-session pointer), with a champion that is not the snapshot
C1_Witness ==
    /\ Failed
    /\ SummaryWritten
    /\ global_best_profile # Val(old_profile)
    /\ active_file = old_profile

\* C2: on normal completion the active profile is the global-best profile under
\* install mode "champion" and the pre-session snapshot under "restore"
C2_InstallPolicy ==
    Succeeded =>
        active_file = IF args.install_mode = "champion"
                      THEN Some(global_best_profile) ELSE old_profile

C2_Witness ==
    /\ Succeeded
    /\ args.install_mode = "restore"
    /\ global_best_profile # Val(old_profile)
    /\ champion_file = Some(global_best_profile)

\* C3: a session ends either with the champion reference committed or rolled
\* back (a failed exit with the active profile at its pre-session value), never
\* both and never neither
C3_CommitOrRollback ==
    (Exited /\ SessionCreated) =>
        (ChampionCommitted # (Failed /\ PreSessionHeld))

\* C4: exit status 0 only with the champion reference and the summary written;
\* a run that ends without both exits non-zero with the active profile at its
\* pre-session value
C4_ExitDiscipline ==
    /\ Succeeded => (ChampionCommitted /\ SummaryWritten)
    /\ (Exited /\ ~ (ChampionCommitted /\ SummaryWritten)) =>
          (exit_code # 0 /\ PreSessionHeld)

\* the champion reference was committed and the summary write failed
C4_Witness ==
    /\ Failed
    /\ ChampionCommitted
    /\ ~ SummaryWritten
    /\ active_file = old_profile

\* the oracle exit status behind a result of the current iteration
ExitOf(row) == oracle_exits[row.candidate + 1]

\* C5: a non-zero oracle exit never ends the session: it never propagates as an
\* exception, its candidate gets the sentinel result, and a session whose oracle
\* calls all exited non-zero and that met no other failure ran every iteration
\* and finalized with a global best of objective -inf
C5_OracleFailureIsNotFatal ==
    /\ exc # "CalledProcessError"
    /\ \A i \in 1..Len(results) :
          ExitOf(results[i]) # 0 =>
              /\ results[i].objective_value = NEG_INF
              /\ results[i].avg_score = NEG_INF
              /\ results[i].max_score = 0
              /\ results[i].avg_frames = 0
    /\ (Succeeded /\ ~ oracle_ever_ok) =>
          /\ Len(history) = args.iterations
          /\ oracle_calls = args.iterations * args.candidates
          /\ Val(global_best_result).objective_value = NEG_INF

\* Scenario B over several iterations
C5_Witness ==
    /\ Succeeded
    /\ ~ oracle_ever_ok
    /\ args.iterations >= 2
    /\ oracle_calls = args.iterations * args.candidates

\* C6: under each of the three metrics the result of a failed oracle run is
\* never strictly better than the result of a successful one
C6_SentinelNeverOutranks ==
    \A m \in SELECTION_METRICS :
        \A i, j \in 1..Len(results) :
            (ExitOf(results[i]) # 0 /\ ExitOf(results[j]) = 0) =>
                ~ StrictlyGreater(StatedTuple(m, results[i]),
                                  StatedTuple(m, results[j]))

\* a failed run beside a successful one of negative objective and maximal score 0..2
C6_Witness ==
    \E i, j \in 1..Len(results) :
        /\ ExitOf(results[i]) # 0
        /\ ExitOf(results[j]) = 0
        /\ results[j].objective_value < 0
        /\ pc = "select"

LastEntry == history[Len(history)]
\* the iteration that filled results has just been recorded
IterationRecorded == pc = "loop" /\ history # <<>> /\ results # <<>>

\* C7: the recorded winner is a result that no result of the iteration beats, and
\* the iteration is improved exactly when the winner beats the carry-over result
C7_WinnerIsMaximal ==
    IterationRecorded =>
        LET winner == results[1]
        IN  /\ \A i \in 1..Len(results) : ~ Beats(results[i], winner)
            /\ LastEntry.winner.candidate = winner.candidate
            /\ LastEntry.improved <=> Beats(winner, CarryOver(results))
            /\ (\A i \in 1..Len(results) : ~ Beats(results[i], CarryOver(results)))
                  => (winner.candidate = 0 /\ ~ LastEntry.improved)

\* three results, the carry-over tied for the best with a later candidate
C7_Witness ==
    /\ IterationRecorded
    /\ Len(results) = 3
    /\ ~ LastEntry.improved
    /\ results[1].candidate = 0
    /\ ~ Beats(results[1], results[2])
    /\ Beats(results[2], results[3])

RecordsIteration == pc = "select" /\ Len(history') = Len(history) + 1
SomeoneBeatsCarryOver == \E i \in 1..Len(results) : Beats(results[i], CarryOver(results))

\* C8: an iteration in which no candidate beats the carry-over leaves the
\* incumbent, the momentum and the last-gain anchor as they were and adds
\* exactly one to the stagnation counter
C8_NoImprovementFrame ==
    [][(RecordsIteration /\ ~ SomeoneBeatsCarryOver) =>
          /\ incumbent_profile' = incumbent_profile
          /\ momentum' = momentum
          /\ last_gain_anchor' = last_gain_anchor
          /\ stagnation_count' = stagnation_count + 1]_vars

\* a stagnant second iteration after an improving first one
C8_Witness ==
    /\ IterationRecorded
    /\ Len(history) = 2
    /\ history[1].improved
    /\ ~ history[2].improved
    /\ stagnation_count = 1
    /\ IsSome(momentum)

\* C9: an iteration whose winner beats the carry-over makes the winner's profile
\* the incumbent, the previous incumbent the last-gain anchor, the per-key
\* difference of the two the momentum, and the stagnation counter 0
C9_ImprovementAdopts ==
    [][(RecordsIteration /\ SomeoneBeatsCarryOver) =>
          /\ incumbent_profile' = results'[1].profile
          /\ \A i \in 1..Len(results) : ~ Beats(results[i], results'[1])
          /\ last_gain_anchor' = Some(incumbent_profile)
          /\ IsSome(momentum')
          /\ \A key \in PROFILE_KEYS :
                Val(momentum')[key] = results'[1].profile[key] - incumbent_profile[key]
          /\ stagnation_count' = 0]_vars

\* an improving iteration after a stagnant one, with a momentum that is not zero
C9_Witness ==
    /\ IterationRecorded
    /\ Len(history) = 2
    /\ ~ history[1].improved
    /\ history[2].improved
    /\ stagnation_count = 0
    /\ \E key \in PROFILE_KEYS : Val(momentum)[key] # 0
    /\ last_gain_anchor # Some(incumbent_profile)

\* no iteration is half evaluated and nothing has failed
BetweenIterations == pc \notin {"start", "evaluate", "select"} /\ exc = ""

\* C10: after every iteration no result of the session beats the global-best
\* result, and the committed champion is the global-best profile
C10_GlobalBestIsBestSeen ==
    /\ (BetweenIterations /\ evaluated # {}) =>
          /\ IsSome(global_best_result)
          /\ \A e \in evaluated : ~ Beats(e, Val(global_best_result))
          /\ global_best_profile = Val(global_best_result).profile
    /\ ChampionCommitted => champion_file = Some(global_best_profile)

\* the champion was committed while the incumbent had moved elsewhere
C10_Witness ==
    /\ Succeeded
    /\ ChampionCommitted
    /\ champion_file = Some(global_best_profile)
    /\ incumbent_profile # global_best_profile
    /\ Val(global_best_result).iteration = 1
    /\ Len(history) = 2

GlobalBestTuple == StatedTuple(args.selection_metric, Val(global_best_result))

\* C11: once a global best exists, no step of the session replaces it by a
\* result whose metric tuple is less under the selected metric
C11_GlobalBestMonotone ==
    [][IsSome(global_best_result) =>
          /\ IsSome(global_best_result')
          /\ ~ StrictlyGreater(GlobalBestTuple, GlobalBestTuple')]_vars

\* the first iteration set a global best and the second one raised it
C11_Witness ==
    /\ pc = "loop"
    /\ Len(history) = 2
    /\ Val(global_best_result).iteration = 2
    /\ history[1].improved
    /\ Beats(Val(global_best_result), history[1].winner)

\* C12: the candidates accepted in an iteration have pairwise different
\* signatures, each of them is recorded in the seen set, and every candidate is
\* a normalized profile
C12_DistinctSignatures ==
    /\ \A i, j \in 1..Len(candidate_specs) :
          i # j => profile_signature(candidate_specs[i].profile)
                     # profile_signature(candidate_specs[j].profile)
    /\ \A i \in 1..Len(candidate_specs) :
          profile_signature(candidate_specs[i].profile) \in seen
    /\ Cardinality(seen) = Len(candidate_specs)

\* the momentum strategy proposed the incumbent again and was rejected, and the
\* iteration was still filled with different candidates
C12_Witness ==
    /\ pc = "evaluate"
    /\ IsSome(momentum)
    /\ Len(candidate_specs) = args.candidates
    /\ \A i \in 1..Len(candidate_specs) : candidate_specs[i].strategy # "momentum"
    /\ \E u \in Uniform(-25, 45) :
          profile_signature(apply_momentum(incumbent_profile, Val(momentum), 100 + u))
              \in seen

\* an iteration has started: its incumbent carry-over is pushed, nothing else yet
IterationStarted == pc = "gen_momentum"

\* C13: at the start of every iteration no anchor has the signature of the
\* incumbent of that iteration
C13_AnchorsExcludeIncumbent ==
    IterationStarted =>
        \A c \in 1..Len(anchor_profiles) :
            profile_signature(anchor_profiles[c][2])
                # profile_signature(incumbent_profile)

\* some iteration found a winner that beat its carry-over: one recorded in the
\* history, or the current one if the session failed while recording it
ImprovingIterationOccurred ==
    \/ \E i \in 1..Len(history) : history[i].improved
    \/ /\ exc # ""
       /\ Len(results) = args.candidates
       /\ Beats(results[1], CarryOver(results))

ImprovedBeforeThisIteration ==
    \E i \in 1..Len(history) : i < iteration /\ history[i].improved

\* C14: without an improving iteration there is no momentum (and no last-gain
\* anchor), and an iteration holds a momentum or blend_last_gain candidate only
\* if an earlier iteration improved
C14_MomentumNeedsImprovement ==
    /\ ~ ImprovingIterationOccurred =>
          (momentum = None /\ last_gain_anchor = None)
    /\ \A i \in 1..Len(candidate_specs) :
          candidate_specs[i].strategy \in {"momentum", "blend_last_gain"}
              => ImprovedBeforeThisIteration

\* the first iteration improved and the second one extrapolates along the
\* momentum it left
C14_Witness ==
    /\ pc = "evaluate"
    /\ iteration = 2
    /\ history[1].improved
    /\ IsSome(momentum)
    /\ \E i \in 1..Len(candidate_specs) : candidate_specs[i].strategy = "momentum"

\* every profile key present, every value inside the bound interval of its key
InBounds(profile) ==
    /\ DOMAIN profile = SCALE_KEYS \cup {DELTA_KEY}
    /\ \A key \in SCALE_KEYS :
          SCALE_BOUNDS[key][1] <= profile[key] /\ profile[key] <= SCALE_BOUNDS[key][2]
    /\ DELTA_BOUNDS[1] <= profile[DELTA_KEY] /\ profile[DELTA_KEY] <= DELTA_BOUNDS[2]

\* line 419 has run: the incumbent and the global-best profile are assigned
StartResolved == incumbent_profile # NoProfile

\* C15: the candidates, the incumbent, the global-best profile, the snapshot,
\* the anchors, and whatever the session wrote to the active profile have every
\* key present and every value within bounds
C15_ProfilesWithinBounds ==
    /\ \A i \in 1..Len(candidate_specs) : InBounds(candidate_specs[i].profile)
    /\ \A i \in 1..Len(results) : InBounds(results[i].profile)
    /\ StartResolved => (InBounds(incumbent_profile) /\ InBounds(global_best_profile))
    /\ IsSome(old_profile) => InBounds(Val(old_profile))
    /\ \A c \in 1..Len(anchor_profiles) : InBounds(anchor_profiles[c][2])
    /\ (IsSome(active_file) /\ active_file # env.active_before)
          => InBounds(Val(active_file))

\* the session found an active profile out of bounds, and is evaluating a
\* generated candidate that sits on a bound
C15_Witness ==
    /\ pc = "evaluate"
    /\ IsSome(env.active_before)
    /\ ~ InBounds(Val(env.active_before))
    /\ \E i \in 2..Len(candidate_specs) :
          /\ active_file = Some(candidate_specs[i].profile)
          /\ \E key \in SCALE_KEYS :
                /\ candidate_specs[i].profile[key] = SCALE_BOUNDS[key][2]
                /\ incumbent_profile[key] # SCALE_BOUNDS[key][2]

\* the fill loop used its whole budget and the iteration is still short of
\* candidates
GenerationExhausted ==
    /\ attempts = MAX_ATTEMPTS
    /\ Len(candidate_specs) < args.candidates
    /\ pc \notin {"gen_fill"}

\* C16: an iteration that is short of candidates after 320 attempts fails with
\* none of its candidates evaluated or written, and the session exits non-zero
\* with the pre-session active profile; no iteration is evaluated short
C16_ExhaustionIsFatal ==
    /\ GenerationExhausted =>
          /\ exc = "RuntimeError"
          /\ pc \in {"finally", "exited"}
          /\ results = <<>>
          /\ oracle_calls = (iteration - 1) * args.candidates
          /\ \A w \in written : ~ (w[1] = "profile" /\ w[2] = iteration)
          /\ Exited => (exit_code # 0 /\ active_file = old_profile)
    /\ pc \in {"evaluate", "select"} => Len(candidate_specs) = args.candidates

\* the second iteration ran out of attempts after the first one was evaluated
\* and had moved the active profile
C16_Witness ==
    /\ GenerationExhausted
    /\ Exited
    /\ iteration = 2
    /\ oracle_calls = args.candidates
    /\ <<"profile", 1, 1>> \in written
    /\ active_file = old_profile

\* the oracle exited zero for the candidate after the last result, and its
\* summary did not list the bot (line 288)
BotMissing ==
    /\ exc = "RuntimeError"
    /\ oracle_calls = (iteration - 1) * args.candidates + Len(results) + 1

\* invalid counts (375-380), a missing seed file, base profile or start
\* profile (394-397, 414-415), the bot absent from the summary (288-289)
ConfigurationError == exc \in {"ValueError", "FileNotFoundError"} \/ BotMissing

\* the active profile as the session found it; where there was none, none or
\* the seeded profile that the snapshot holds
ActiveAtPreSessionValue ==
    IF TryEntered THEN active_file = old_profile
    ELSE IF IsSome(env.active_before) THEN active_file = env.active_before
    ELSE active_file = None \/ active_file = old_profile

\* C17: a configuration error ends the session: no result is recorded for it,
\* least of all the sentinel, the oracle is not invoked again, and the process
\* exits non-zero with the active profile at its pre-session value
C17_ConfigurationErrorsAreFatal ==
    /\ [](/\ ConfigurationError => pc \in {"finally", "exited"}
          /\ (ConfigurationError /\ Exited) =>
                (exit_code # 0 /\ ActiveAtPreSessionValue)
          /\ (exc \in {"ValueError", "FileNotFoundError"}) => oracle_calls = 0
          /\ \A i \in 1..Len(results) :
                ExitOf(results[i]) = 0 =>
                    (results[i].objective_value # NEG_INF
                     /\ results[i].avg_score # NEG_INF))
    /\ [][ConfigurationError =>
            (ConfigurationError' /\ oracle_calls' = oracle_calls
             /\ results' = results)]_vars

\* the bot was missing from the summary of the second candidate of the second
\* iteration
C17_Witness ==
    /\ Exited
    /\ BotMissing
    /\ iteration = 2
    /\ Len(results) = 1
    /\ oracle_calls = args.candidates + 2
    /\ active_file = old_profile
    /\ active_file # Some(candidate_specs[2].profile)

\* C18: the active profile changes only by the steps of the session that write
\* it, every invocation of the oracle finds the active profile overwritten with
\* the profile of the candidate it evaluates, and candidates are evaluated one
\* at a time, in order, iteration after iteration
C18_ActiveProfileIsCandidate ==
    [][/\ oracle_calls' # oracle_calls =>
            /\ oracle_calls' = oracle_calls + 1
            /\ pc = "evaluate"
            /\ active_file' = Some(candidate_specs[Len(results) + 1].profile)
            /\ <<"profile", iteration, Len(results)>> \in written'
            /\ oracle_calls = (iteration - 1) * args.candidates + Len(results)
            /\ results' # results =>
                  /\ Len(results') = Len(results) + 1
                  /\ results'[Len(results')].candidate = Len(results)
                  /\ results'[Len(results')].iteration = iteration
                  /\ results'[Len(results')].profile = Val(active_file')
       /\ active_file' # active_file =>
            \/ pc = "check_inputs" /\ active_file = None
            \/ pc = "evaluate" /\ oracle_calls' = oracle_calls + 1
            \/ pc = "install"
            \/ pc = "finally" /\ ~ success /\ active_file' = old_profile
       /\ iteration' # iteration =>
            (iteration' = iteration + 1 /\ pc = "loop"
             /\ oracle_calls = iteration * args.candidates)]_vars

\* the last candidate of the second iteration was evaluated on its own profile,
\* which is neither the carry-over's nor the snapshot
C18_Witness ==
    /\ pc = "select"
    /\ iteration = 2
    /\ oracle_calls = 2 * args.candidates
    /\ active_file = Some(results[Len(results)].profile)
    /\ active_file # Some(results[1].profile)
    /\ active_file # old_profile

\* an iteration is being generated or evaluated, or was just recorded
InIteration ==
    /\ iteration >= 1
    /\ exc = ""
    /\ pc \in {"gen_momentum", "gen_blend_last_gain", "gen_blend_anchor",
               "gen_anchor_mutate", "gen_escape", "gen_chaos", "gen_fill",
               "evaluate", "select", "loop"}

\* C19: the oracle has been invoked once for each candidate evaluated so far,
\* failed invocations included, and a finalized session has made exactly
\* iterations * candidates invocations
C19_OneInvocationPerCandidate ==
    /\ InIteration =>
          /\ oracle_calls = (iteration - 1) * args.candidates + Len(results)
          /\ Len(oracle_exits) = Len(results)
    /\ (ChampionCommitted \/ Succeeded) =>
          oracle_calls = args.iterations * args.candidates

\* a finalized session of two iterations in which some invocations exited
\* non-zero and others did not
C19_Witness ==
    /\ Succeeded
    /\ args.iterations = 2
    /\ oracle_calls = 2 * args.candidates
    /\ oracle_ever_ok
    /\ \E e \in evaluated : e.objective_value = NEG_INF

ProfileRecorded(it, cand) == <<"profile", it, cand>> \in written
LeaderboardRecorded(it) == <<"leaderboard", it, 0>> \in written
IterationOnRecord(it) ==
    /\ LeaderboardRecorded(it)
    /\ \A cand \in 0..(args.candidates - 1) : ProfileRecorded(it, cand)

\* C20: a candidate's profile is written before the candidate is evaluated, the
\* leaderboard of an iteration is written before the search state is updated
\* and before the next iteration starts, and whatever happens in iteration k
\* the records of the iterations before it are present
C20_RecordsBeforeAdvancing ==
    /\ [](/\ \A i \in 1..Len(results) : ProfileRecorded(iteration, results[i].candidate)
          /\ \A it \in 1..(iteration - 1) : IterationOnRecord(it)
          /\ \A it \in 1..Len(history) : IterationOnRecord(it))
    /\ [][/\ oracle_calls' # oracle_calls =>
                <<"profile", iteration, Len(results)>> \in written'
          /\ (iteration >= 1 /\ search' # search) =>
                (pc = "select" /\ <<"leaderboard", iteration, 0>> \in written')
          /\ (iteration >= 1 /\ iteration' # iteration) =>
                IterationOnRecord(iteration)]_vars

\* the session failed in its second iteration, short of that iteration's
\* leaderboard; the first iteration is on record
C20_Witness ==
    /\ Failed
    /\ iteration = 2
    /\ Len(history) = 1
    /\ IterationOnRecord(1)
    /\ ProfileRecorded(2, 1)
    /\ ~ LeaderboardRecorded(2)

\* the stagnation counter as the current iteration found it: what the previous
\* iteration recorded
StagnationAtStart ==
    IF iteration <= 1 THEN 0 ELSE history[iteration - 1].stagnation_count

AnchorMutateStrategies ==
    {"anchor_mutate_" \o label : label \in {"base", "champion", "auto_champion"}}

Generating ==
    pc \in {"gen_momentum", "gen_blend_last_gain", "gen_blend_anchor",
            "gen_anchor_mutate", "gen_escape", "gen_chaos", "gen_fill", "evaluate"}

\* C21: an iteration holds an escape candidate only if it started with a
\* stagnation count of 2 or more, a chaos candidate only under the metric
\* insane, an anchor_mutate candidate only with an anchor and (a stagnation
\* count of 1 or more, or the metric insane)
C21_GatedStrategies ==
    /\ (Generating /\ exc = "") => stagnation_count = StagnationAtStart
    /\ \A i \in 1..Len(candidate_specs) :
          LET strategy == candidate_specs[i].strategy
          IN  /\ strategy = "escape" => StagnationAtStart >= 2
              /\ strategy = "chaos" => args.selection_metric = "insane"
              /\ strategy \in AnchorMutateStrategies =>
                    /\ anchor_profiles # <<>>
                    /\ StagnationAtStart >= 1 \/ args.selection_metric = "insane"

\* an anchor_mutate candidate after one stagnant iteration, under a metric that
\* is not insane
C21_Witness ==
    /\ pc = "evaluate"
    /\ args.selection_metric # "insane"
    /\ stagnation_count = 1
    /\ \E i \in 1..Len(candidate_specs) :
          candidate_specs[i].strategy \in AnchorMutateStrategies

CarryOverSpecs ==
    {i \in 1..Len(candidate_specs) : candidate_specs[i].strategy = "incumbent"}
CarryOverResults == {i \in 1..Len(results) : results[i].strategy = "incumbent"}

\* C22: an iteration under evaluation has exactly args.candidates candidates,
\* the first of them, and no other, the incumbent carry-over with the profile
\* of the incumbent; when the iteration is ranked every candidate has one
\* result, and the carry-over's result is the one of index 0
C22_ExactCountWithCarryOver ==
    /\ pc \in {"evaluate", "select"} =>
          /\ Len(candidate_specs) = args.candidates
          /\ CarryOverSpecs = {1}
          /\ candidate_specs[1].profile = incumbent_profile
          /\ Len(results) <= args.candidates
          /\ \A i \in 1..Len(results) :
                /\ results[i].candidate = i - 1
                /\ results[i].strategy = candidate_specs[i].strategy
                /\ results[i].profile = candidate_specs[i].profile
    /\ pc = "select" =>
          /\ Len(results) = args.candidates
          /\ CarryOverResults = {1}
    /\ IterationRecorded =>
          /\ Len(results) = args.candidates
          /\ Cardinality(CarryOverResults) = 1
          /\ \A i \in CarryOverResults : results[i].candidate = 0
          /\ {results[i].candidate : i \in 1..Len(results)} = 0..(args.candidates - 1)

\* the second iteration is ranked on the count of candidates: the incumbent that
\* the first iteration adopted, and a momentum candidate that left no room for
\* the blend with the last-gain anchor
C22_Witness ==
    /\ pc = "select"
    /\ iteration = 2
    /\ history[1].improved
    /\ IsSome(last_gain_anchor)
    /\ Len(results) = args.candidates
    /\ results[1].profile = incumbent_profile
    /\ results[2].strategy = "momentum"
    /\ \A i \in 1..Len(results) : results[i].strategy # "blend_last_gain"

\* results[i] is ranked level with the winner
TiedWithWinner(i) == ~ Beats(results[1], results[i])

\* C23: the winner is the earliest-generated of the results that rank highest,
\* so an iteration that is not improved records the carry-over itself as its
\* winner; and the global best changes only to a winner that beats it
C23_TiesFavourTheEarlier ==
    /\ [](IterationRecorded =>
            /\ \A i \in 1..Len(results) :
                  TiedWithWinner(i) => results[1].candidate <= results[i].candidate
            /\ ~ LastEntry.improved =>
                  (LastEntry.winner.candidate = 0 /\ results[1].strategy = "incumbent"))
    /\ [][(global_best_result' # global_best_result /\ IsSome(global_best_result)) =>
             Beats(Val(global_best_result'), Val(global_best_result))]_vars

\* in the second iteration a later candidate ranked level with the carry-over,
\* and both level with the global best of the first iteration, which stayed
C23_Witness ==
    /\ IterationRecorded
    /\ iteration = 2
    /\ ~ LastEntry.improved
    /\ results[1].candidate = 0
    /\ TiedWithWinner(2)
    /\ Val(global_best_result).iteration = 1
    /\ ~ Beats(Val(global_best_result), results[1])
    /\ results[1].objective_value # NEG_INF

\* C24: every session comes to its exit, either finalized after exactly
\* args.iterations iterations or failed with the active profile rolled back;
\* the fill loop never makes more than 320 attempts and the stagnation counter
\* never exceeds the number of iterations completed
C24_SessionTerminates ==
    /\ <>Exited
    /\ [](/\ Exited =>
                \/ Succeeded /\ ChampionCommitted /\ Len(history) = args.iterations
                \/ Failed /\ PreSessionHeld
          /\ ChampionCommitted =>
                (Len(history) = args.iterations /\ iteration = args.iterations)
          /\ iteration <= Max2(args.iterations, 0)
          /\ attempts <= MAX_ATTEMPTS
          /\ stagnation_count <= iteration
          /\ exc = "" => stagnation_count <= Len(history))

\* three stagnant iterations and a finalized session: the stagnation counter
\* stands at the number of iterations
C24_Witness ==
    /\ Succeeded
    /\ Len(history) = 3
    /\ args.iterations = 3
    /\ stagnation_count = 3

====
